---- MODULE Spec2Model ----
(***************************************************************************)
(* Model of snippets/rust_errors/fizz_propagate.rs: two fallible i32       *)
(* stages (fizz, buzz), their composition with the `?` operator            *)
(* (fizzbuzz), and the driver loop (main) that prints one line per input.  *)
(*                                                                         *)
(* Two specifications are given.  Spec is the program itself (main).       *)
(* FnSpec runs one call of fizzbuzz on an input drawn from a bounded set   *)
(* of i32 values that includes both ends of the i32 range.                 *)
(***************************************************************************)
EXTENDS Integers, Sequences, FiniteSets, TLC

VARIABLES
    overflow_checks, \* build profile: TRUE = arithmetic overflow panics, FALSE = it wraps
    pc,              \* position of the single thread
    next,            \* the Range iterator's `start` field in main's for loop
    i,               \* main's loop variable
    num,             \* fizzbuzz's argument
    r,               \* value of `fizz(num)` inside fizzbuzz
    m,               \* value of `fizz(num)?`, the argument given to buzz
    ret,             \* fizzbuzz's return value
    calls,           \* stages invoked by the current fizzbuzz call, in order, with arguments
    inputs,          \* values main has passed to fizzbuzz so far, in order
    out              \* lines written to standard output so far

vars == <<overflow_checks, pc, next, i, num, r, m, ret, calls, inputs, out>>

----------------------------------------------------------------------------
(* Bounds of the input set of FnSpec *)

SmallBound == 40   \* inputs -SmallBound .. SmallBound
EdgeSpan   == 6    \* inputs within EdgeSpan of either end of the i32 range

(* Program constants *)

I32_MAX    == 2147483647
I32_MIN    == -I32_MAX - 1
RangeStart == 1
RangeEnd   == 100

----------------------------------------------------------------------------
(* i32 arithmetic *)

\* Rust's `%` on i32: the remainder truncates toward zero (sign of the dividend).
Rem(a, b) == IF a >= 0 \/ a % b = 0 THEN a % b ELSE (a % b) - b

\* Rust's `/` on i32, used by integer formatting: truncated quotient.
Quot(a, b) == (a - Rem(a, b)) \div b

\* Rust's `+` on i32 with a positive right operand: on overflow the result
\* depends on the build, a panic with overflow checks and two's-complement
\* wrapping without.
Add32(a, b) ==
    IF a > I32_MAX - b
    THEN IF overflow_checks
         THEN [panic |-> TRUE, val |-> 0]
         ELSE [panic |-> FALSE, val |-> I32_MIN + (a - (I32_MAX - b)) - 1]
    ELSE [panic |-> FALSE, val |-> a + b]

(* Result<i32, String>, plus the outcome "the call panicked" *)

Ok(v)  == [tag |-> "Ok", val |-> v]
Err(s) == [tag |-> "Err", msg |-> s]
Panic  == [tag |-> "Panic"]
None   == [tag |-> "None"]

----------------------------------------------------------------------------
(* The stages *)

fizz_never_fails(n) ==
    LET s == Add32(n, 3) IN IF s.panic THEN Panic ELSE Ok(s.val)

fizz_plus_one(n) ==
    IF Rem(n, 3) = 0
    THEN Err("fizz")
    ELSE LET s == Add32(n, 1) IN IF s.panic THEN Panic ELSE Ok(s.val)

fizz(n) ==
    IF Rem(n, 3) = 0
    THEN Err("fizz")
    ELSE LET s == Add32(n, 3) IN IF s.panic THEN Panic ELSE Ok(s.val)

buzz_says_fizz(n) ==
    IF Rem(n, 5) = 0
    THEN Err("fizz")
    ELSE LET s == Add32(n, 5) IN IF s.panic THEN Panic ELSE Ok(s.val)

buzz(n) ==
    IF Rem(n, 5) = 0
    THEN Err("buzz")
    ELSE LET s == Add32(n, 5) IN IF s.panic THEN Panic ELSE Ok(s.val)

\* fizzbuzz as a function: buzz(fizz(num)?)
fizzbuzz(n) ==
    LET f == fizz(n) IN IF f.tag = "Ok" THEN buzz(f.val) ELSE f

----------------------------------------------------------------------------
(* Formatting of println!("{i} => {num}") and println!("{i} => Error: {msg}") *)

DigitChar(d) == <<"0", "1", "2", "3", "4", "5", "6", "7", "8", "9">>[d + 1]

RECURSIVE Digits(_)
Digits(n) ==
    IF n < 10 THEN DigitChar(n) ELSE Digits(n \div 10) \o DigitChar(n % 10)

RECURSIVE NegDigits(_)
NegDigits(n) ==
    IF n > -10 THEN DigitChar(-n)
    ELSE NegDigits(Quot(n, 10)) \o DigitChar(-Rem(n, 10))

\* Display for i32
Display(n) == IF n >= 0 THEN Digits(n) ELSE "-" \o NegDigits(n)

OkLine(k, v)    == Display(k) \o " => " \o Display(v)
ErrLine(k, msg) == Display(k) \o " => Error: " \o msg

----------------------------------------------------------------------------
(* fizzbuzz, step by step *)

\* evaluate `fizz(num)`
Fizz ==
    /\ pc = "fizz"
    /\ r' = fizz(num)
    /\ calls' = Append(calls, <<"fizz", num>>)
    /\ pc' = IF fizz(num).tag = "Panic" THEN "panic" ELSE "try"
    /\ UNCHANGED <<overflow_checks, next, i, num, m, ret, inputs, out>>

\* `?` on Err(e): return Err(From::from(e)) at once; String from String is the same string
TryErr ==
    /\ pc = "try"
    /\ r.tag = "Err"
    /\ ret' = Err(r.msg)
    /\ pc' = "ret"
    /\ UNCHANGED <<overflow_checks, next, i, num, r, m, calls, inputs, out>>

\* `?` on Ok(v): the expression has value v
TryOk ==
    /\ pc = "try"
    /\ r.tag = "Ok"
    /\ m' = r.val
    /\ pc' = "buzz"
    /\ UNCHANGED <<overflow_checks, next, i, num, r, ret, calls, inputs, out>>

Buzz_on_num ==
    /\ pc = "buzz"
    /\ ret' = buzz(num)
    /\ calls' = Append(calls, <<"buzz", num>>)
    /\ pc' = IF buzz(num).tag = "Panic" THEN "panic" ELSE "ret"
    /\ UNCHANGED <<overflow_checks, next, i, num, r, m, inputs, out>>

\* evaluate `buzz(..)`, the tail expression: its value is fizzbuzz's return value
Buzz ==
    /\ pc = "buzz"
    /\ ret' = buzz(m)
    /\ calls' = Append(calls, <<"buzz", m>>)
    /\ pc' = IF buzz(m).tag = "Panic" THEN "panic" ELSE "ret"
    /\ UNCHANGED <<overflow_checks, next, i, num, r, m, inputs, out>>

----------------------------------------------------------------------------
(* main *)

MainNext_inclusive ==
    /\ pc = "loop"
    /\ next <= RangeEnd
    /\ i' = next
    /\ next' = next + 1
    /\ num' = next
    /\ r' = None
    /\ ret' = None
    /\ calls' = <<>>
    /\ inputs' = Append(inputs, next)
    /\ pc' = "fizz"
    /\ UNCHANGED <<overflow_checks, m, out>>

\* `for i in 1..100`: the iterator yields Some(next) while next < 100;
\* the body starts by calling fizzbuzz(i)
MainNext ==
    /\ pc = "loop"
    /\ next < RangeEnd
    /\ i' = next
    /\ next' = next + 1
    /\ num' = next
    /\ r' = None
    /\ ret' = None
    /\ calls' = <<>>
    /\ inputs' = Append(inputs, next)
    /\ pc' = "fizz"
    /\ UNCHANGED <<overflow_checks, m, out>>

\* the iterator yields None: the loop ends and main returns
MainExit ==
    /\ pc = "loop"
    /\ ~(next < RangeEnd)
    /\ pc' = "done"
    /\ UNCHANGED <<overflow_checks, next, i, num, r, m, ret, calls, inputs, out>>

\* match arm Ok(num) => println!("{i} => {num}")
MainMatchOk ==
    /\ pc = "ret"
    /\ ret.tag = "Ok"
    /\ out' = Append(out, OkLine(i, ret.val))
    /\ pc' = "loop"
    /\ UNCHANGED <<overflow_checks, next, i, num, r, m, ret, calls, inputs>>

MainMatchErr_unwrap ==
    /\ pc = "ret"
    /\ ret.tag = "Err"
    /\ pc' = "panic"
    /\ UNCHANGED <<overflow_checks, next, i, num, r, m, ret, calls, inputs, out>>

MainMatchErr_no_prefix ==
    /\ pc = "ret"
    /\ ret.tag = "Err"
    /\ out' = Append(out, Display(i) \o " => " \o ret.msg)
    /\ pc' = "loop"
    /\ UNCHANGED <<overflow_checks, next, i, num, r, m, ret, calls, inputs>>

\* match arm Err(msg) => println!("{i} => Error: {msg}")
MainMatchErr ==
    /\ pc = "ret"
    /\ ret.tag = "Err"
    /\ out' = Append(out, ErrLine(i, ret.msg))
    /\ pc' = "loop"
    /\ UNCHANGED <<overflow_checks, next, i, num, r, m, ret, calls, inputs>>

----------------------------------------------------------------------------
(* The program *)

Init ==
    /\ overflow_checks \in BOOLEAN
    /\ pc = "loop"
    /\ next = RangeStart
    /\ i = 0
    /\ num = 0
    /\ r = None
    /\ m = 0
    /\ ret = None
    /\ calls = <<>>
    /\ inputs = <<>>
    /\ out = <<>>

Next ==
    \/ MainNext
    \/ MainExit
    \/ Fizz
    \/ TryErr
    \/ TryOk
    \/ Buzz
    \/ MainMatchOk
    \/ MainMatchErr

Spec == Init /\ [][Next]_vars

\* The program is one sequential thread: it takes its next step whenever it has one.
LiveSpec == Spec /\ WF_vars(Next)

(* One call of fizzbuzz on any input of the bounded set *)

Inputs ==
    (-SmallBound .. SmallBound)
        \cup {I32_MAX - k : k \in 0 .. EdgeSpan}
        \cup {I32_MIN + k : k \in 0 .. EdgeSpan}

FnInit ==
    /\ overflow_checks \in BOOLEAN
    /\ pc = "fizz"
    /\ next = RangeStart
    /\ i = 0
    /\ num \in Inputs
    /\ r = None
    /\ m = 0
    /\ ret = None
    /\ calls = <<>>
    /\ inputs = <<>>
    /\ out = <<>>

FnNext ==
    \/ Fizz
    \/ TryErr
    \/ TryOk
    \/ Buzz

FnSpec == FnInit /\ [][FnNext]_vars

(* Each stage alone, on any input of the bounded set *)

StageInit ==
    /\ overflow_checks \in BOOLEAN
    /\ next = RangeStart
    /\ i = 0
    /\ r = None
    /\ ret = None
    /\ calls = <<>>
    /\ inputs = <<>>
    /\ out = <<>>
    /\ \/ pc = "fizz" /\ num \in Inputs /\ m = 0
       \/ pc = "buzz" /\ m \in Inputs /\ num = 0

StageNext ==
    \/ Fizz
    \/ Buzz

StageSpec == StageInit /\ [][StageNext]_vars

----------------------------------------------------------------------------
(* Properties *)

\* the fizzbuzz call has ended, by returning or by panicking
Finished == pc \in {"ret", "panic"}

\* C1 as stated: for every n divisible by 5 and not by 3, fizzbuzz(n)
\* returns Err("buzz"); in particular fizzbuzz(5) = Err("buzz").
C1_Original ==
    (pc = "ret" /\ Rem(num, 5) = 0 /\ Rem(num, 3) # 0) => ret = Err("buzz")

\* C1 amended: for every i32 n not divisible by 3 such that n + 3 does not
\* overflow and n + 3 is divisible by 5, fizzbuzz(n) returns Err("buzz");
\* in particular fizzbuzz(2) = Err("buzz"), whereas fizzbuzz(5) = Ok(13).
C1_BuzzOnShifted ==
    /\ (Finished /\ Rem(num, 3) # 0 /\ num <= I32_MAX - 3 /\ Rem(num + 3, 5) = 0)
          => (pc = "ret" /\ ret = Err("buzz"))
    /\ (Finished /\ num = 2) => (pc = "ret" /\ ret = Err("buzz"))
    /\ (Finished /\ num = 5) => (pc = "ret" /\ ret = Ok(13))

C1_Witness == pc = "ret" /\ num = 2 /\ ret = Err("buzz") /\ Len(calls) = 2

\* C2 as stated: for every n divisible by neither 3 nor 5, fizzbuzz(n)
\* returns Ok(n + 8); in particular fizzbuzz(1) = Ok(9), fizzbuzz(7) = Ok(15).
C2_Original ==
    (Finished /\ Rem(num, 3) # 0 /\ Rem(num, 5) # 0)
        => (pc = "ret" /\ num <= I32_MAX - 8 /\ ret = Ok(num + 8))

\* C2 amended: for every i32 n not divisible by 3 such that n + 8 does not
\* overflow and n + 3 is not divisible by 5, fizzbuzz(n) returns Ok(n + 8);
\* in particular fizzbuzz(1) = Ok(9), whereas fizzbuzz(7) = Err("buzz").
C2_OkOnShifted ==
    /\ (Finished /\ Rem(num, 3) # 0 /\ num <= I32_MAX - 8 /\ Rem(num + 3, 5) # 0)
          => (pc = "ret" /\ ret = Ok(num + 8))
    /\ (Finished /\ num = 1) => (pc = "ret" /\ ret = Ok(9))
    /\ (Finished /\ num = 7) => (pc = "ret" /\ ret = Err("buzz"))

C2_Witness == pc = "ret" /\ num = 1 /\ ret = Ok(9) /\ Len(calls) = 2

\* C3: for every n divisible by 3, fizzbuzz(n) returns Err("fizz"), whether
\* or not n is also divisible by 5; e.g. fizzbuzz(15) = Err("fizz").
C3_FizzPrecedence ==
    /\ (Finished /\ Rem(num, 3) = 0) => (pc = "ret" /\ ret = Err("fizz"))
    /\ (Finished /\ num = 15) => (pc = "ret" /\ ret = Err("fizz"))

C3_Witness == pc = "ret" /\ num = 15 /\ ret = Err("fizz")

\* C6: in fizzbuzz(n) the Buzz stage is never invoked when the Fizz stage
\* fails, and the Fizz failure is returned as is; when the Fizz stage
\* succeeds with m, the Buzz stage is invoked exactly once, on m and not on
\* n, and fizzbuzz returns the Buzz result unchanged.
C6_ShortCircuit ==
    /\ r.tag = "Err" => \A k \in 1 .. Len(calls) : calls[k][1] # "buzz"
    /\ (pc = "ret" /\ r.tag = "Err") => (ret = r /\ calls = << <<"fizz", num>> >>)
    /\ (Finished /\ r.tag = "Ok")
          => /\ calls = << <<"fizz", num>>, <<"buzz", r.val>> >>
             /\ num <= I32_MAX - 3 => calls[2][2] = num + 3
             /\ calls[2][2] # num
             /\ ret = buzz(r.val)
    /\ pc \in {"fizz", "try", "buzz"} => ret = None

C6_Witness ==
    /\ pc = "ret"
    /\ r = Ok(10)
    /\ calls = << <<"fizz", 7>>, <<"buzz", 10>> >>
    /\ ret = Err("buzz")

\* C9 as stated: for every integer n, fizz(n) fails with Fizz exactly when
\* n is divisible by 3 and otherwise returns n + 3; buzz(n) fails with Buzz
\* exactly when n is divisible by 5 and otherwise returns n + 5.
C9_Original ==
    /\ (Len(calls) = 1 /\ calls[1][1] = "fizz")
          => IF Rem(num, 3) = 0 THEN r = Err("fizz")
             ELSE num <= I32_MAX - 3 /\ r = Ok(num + 3)
    /\ (Len(calls) = 1 /\ calls[1][1] = "buzz")
          => IF Rem(m, 5) = 0 THEN ret = Err("buzz")
             ELSE m <= I32_MAX - 5 /\ ret = Ok(m + 5)

\* C9 amended: for every i32 n, fizz(n) fails with Fizz exactly when n is
\* divisible by 3 and otherwise returns n + 3 provided n + 3 does not
\* exceed i32::MAX; buzz(n) fails with Buzz exactly when n is divisible by
\* 5 and otherwise returns n + 5 provided n + 5 does not exceed i32::MAX.
\* Past i32::MAX the stage does not fail with its tag: it panics in a build
\* with overflow checks and returns the wrapped sum in a build without.
C9_StageContracts ==
    /\ (Len(calls) = 1 /\ calls[1][1] = "fizz")
          => /\ calls[1][2] = num
             /\ (r = Err("fizz")) <=> (Rem(num, 3) = 0)
             /\ r.tag # "Err" => r.tag \in {"Ok", "Panic"}
             /\ (Rem(num, 3) # 0 /\ num <= I32_MAX - 3) => r = Ok(num + 3)
             /\ (Rem(num, 3) # 0 /\ num > I32_MAX - 3)
                   => r = IF overflow_checks THEN Panic
                          ELSE Ok(I32_MIN + (num - (I32_MAX - 2)))
    /\ (Len(calls) = 1 /\ calls[1][1] = "buzz")
          => /\ calls[1][2] = m
             /\ (ret = Err("buzz")) <=> (Rem(m, 5) = 0)
             /\ ret.tag # "Err" => ret.tag \in {"Ok", "Panic"}
             /\ (Rem(m, 5) # 0 /\ m <= I32_MAX - 5) => ret = Ok(m + 5)
             /\ (Rem(m, 5) # 0 /\ m > I32_MAX - 5)
                   => ret = IF overflow_checks THEN Panic
                            ELSE Ok(I32_MIN + (m - (I32_MAX - 4)))

C9_Witness ==
    /\ calls = << <<"buzz", 15>> >>
    /\ ret = Err("buzz")

\* C4: main processes exactly 99 input values and emits exactly 99 output
\* lines, one per input, in strictly ascending input order.
C4_NinetyNineLines ==
    /\ Len(inputs) <= 99
    /\ Len(out) <= Len(inputs)
    /\ Len(inputs) <= Len(out) + 1
    /\ pc \in {"loop", "done"} => Len(out) = Len(inputs)
    /\ \A k \in 1 .. Len(inputs) - 1 : inputs[k] < inputs[k + 1]
    /\ \A k \in 1 .. Len(out) :
          LET v == fizzbuzz(inputs[k]) IN
              out[k] = IF v.tag = "Ok" THEN OkLine(inputs[k], v.val)
                       ELSE ErrLine(inputs[k], v.msg)
    /\ pc = "done" => (Len(inputs) = 99 /\ Len(out) = 99)

C4_Witness == pc = "done" /\ Len(inputs) = 99 /\ Len(out) = 99

\* C5 as stated: main iterates the input values 1 through 98 inclusive:
\* the first value processed is 1, the last is 98, and no value outside
\* that range is passed to fizzbuzz.
C5_Original ==
    /\ \A k \in 1 .. Len(inputs) : inputs[k] \in 1 .. 98
    /\ Len(inputs) > 0 => inputs[1] = 1
    /\ pc = "done" => inputs[Len(inputs)] = 98

\* C5 amended: main iterates the input values 1 through 99 inclusive: the
\* first value processed is 1, the last is 99, and no value outside that
\* range is passed to fizzbuzz.
C5_OneToNinetyNine ==
    /\ \A k \in 1 .. Len(inputs) : inputs[k] \in 1 .. 99
    /\ Len(inputs) > 0 => inputs[1] = 1
    /\ pc \in {"fizz", "try", "buzz", "ret", "panic"} => num \in 1 .. 99
    /\ pc = "done" => inputs[Len(inputs)] = 99

C5_Witness == pc = "done" /\ inputs[1] = 1 /\ inputs[Len(inputs)] = 99

\* C7: no pipeline failure stops the loop: from every iteration, whether
\* fizzbuzz(i) succeeded or failed, main emits exactly one output line for
\* i and then proceeds to the next input, and the program eventually
\* terminates normally after the last input has been printed.
C7_NoFailureIsFatal ==
    /\ [][pc = "ret" => /\ pc' = "loop"
                        /\ Len(out') = Len(out) + 1
                        /\ SubSeq(out', 1, Len(out)) = out
                        /\ Len(out') = i]_vars
    /\ [][pc = "loop" => \/ (pc' = "fizz" /\ num' = i + 1 /\ out' = out)
                         \/ (pc' = "done" /\ i = 99 /\ out' = out)]_vars
    /\ [](pc # "panic")
    /\ <>[](pc = "done" /\ Len(out) = 99)

C7_Witness ==
    /\ pc = "done"
    /\ Len(out) = 99
    /\ out[98] = "98 => 106"
    /\ out[99] = "99 => Error: fizz"

\* C8: every line emitted for input i is "<i> => <result>" with the success
\* value of fizzbuzz(i) when it succeeds, and "<i> => Error: <tag>" with
\* its failure tag, one of fizz and buzz, when it fails; no line has another
\* form and no other tag is printed.
C8_LineFormat ==
    /\ \A k \in 1 .. Len(out) :
          LET res == fizzbuzz(inputs[k]) IN
              \/ /\ res.tag = "Ok"
                 /\ out[k] = Display(inputs[k]) \o " => " \o Display(res.val)
              \/ /\ res.tag = "Err"
                 /\ res.msg \in {"fizz", "buzz"}
                 /\ out[k] = Display(inputs[k]) \o " => Error: " \o res.msg
    /\ pc = "ret" => ret = fizzbuzz(i)
    /\ Len(out) >= 3 => /\ out[1] = "1 => 9"
                        /\ out[2] = "2 => Error: buzz"
                        /\ out[3] = "3 => Error: fizz"
    /\ Len(out) >= 13 => out[13] = "13 => 21"

C8_Witness ==
    /\ Len(out) >= 13
    /\ out[12] = "12 => Error: fizz"
    /\ out[13] = "13 => 21"
    /\ out[7] = "7 => Error: buzz"

\* C10: for every n in main's range, fizzbuzz(n) returns Err("buzz") exactly
\* when n is not divisible by 3 and n + 3 is divisible by 5 (n mod 5 = 2),
\* and Ok(n + 8) exactly when n is not divisible by 3 and n mod 5 is not 2;
\* so a Buzz failure depends on n mod 5 = 2, not on n being divisible by 5.
C10_BuzzOnResidueTwo ==
    pc = "ret" =>
        /\ num \in 1 .. 99
        /\ (ret = Err("buzz")) <=> (num % 3 # 0 /\ num % 5 = 2)
        /\ (num % 5 = 2) <=> ((num + 3) % 5 = 0)
        /\ (ret = Ok(num + 8)) <=> (num % 3 # 0 /\ num % 5 # 2)
        /\ (num % 5 = 0) => ret # Err("buzz")
        /\ (ret.tag = "Ok") => ret.val = num + 8

C10_Witness == pc = "ret" /\ num = 5 /\ ret = Ok(13)

====
